---- MODULE Spec2Model ----
(***************************************************************************)
(* Model of src/patch_apply.rs: edit_file, find_best_match_position and    *)
(* similarity_score.                                                       *)
(*                                                                         *)
(* A text (String) is a sequence of one-character strings, a line is a     *)
(* text without "\n", a buffer (Vec<&str>) is a sequence of lines.  Line   *)
(* indices keep the code's 0-based usize values; TLA+ sequences are        *)
(* 1-based, so buffer[i] of the code is buf[i + 1] here.  The inputs       *)
(* contain no carriage return.                                             *)
(***************************************************************************)
EXTENDS Integers, Sequences, FiniteSets, TLC

\* ------------------------------------------------------------------------
\* Strings

NL == "\n"

\* char::is_whitespace / the regex class \s, over the characters in use
IsWhitespace(c) == c \in {" ", "\t", "\n", "\r"}

Min(a, b) == IF a <= b THEN a ELSE b

Max(a, b) == IF a >= b THEN a ELSE b

RECURSIVE Concat(_)
\* concatenation of a sequence of texts
Concat(ts) == IF ts = <<>> THEN <<>> ELSE Head(ts) \o Concat(Tail(ts))

RECURSIVE Join(_, _)
\* [&str]::join(sep)
Join(ls, sep) ==
    IF ls = <<>> THEN <<>>
    ELSE IF Len(ls) = 1 THEN ls[1]
    ELSE ls[1] \o sep \o Join(Tail(ls), sep)

RECURSIVE SplitInclusive(_, _)
\* str::split_inclusive('\n'): the pieces of a text, each ending with its
\* "\n" except possibly the last; cur is the piece being read
SplitInclusive(t, cur) ==
    IF t = <<>> THEN (IF cur = <<>> THEN <<>> ELSE <<cur>>)
    ELSE IF Head(t) = NL THEN <<Append(cur, NL)>> \o SplitInclusive(Tail(t), <<>>)
    ELSE SplitInclusive(Tail(t), Append(cur, Head(t)))

\* the line without its trailing "\n", when it has one
StripNewline(l) ==
    IF l # <<>> /\ l[Len(l)] = NL THEN SubSeq(l, 1, Len(l) - 1) ELSE l

\* str::lines(): a final line ending is optional, the empty text has no line
Lines(t) ==
    LET ps == SplitInclusive(t, <<>>)
    IN  [i \in 1..Len(ps) |-> StripNewline(ps[i])]

\* str::trim().is_empty()
IsBlank(l) == \A i \in 1..Len(l) : IsWhitespace(l[i])

\* ------------------------------------------------------------------------
\* The elision marker: Regex  //\s*\.\.\.\s*existing\s*code\s*\.\.\.\s*

Slashes == <<"/", "/">>

Dots == <<".", ".", ".">>

Existing == <<"e", "x", "i", "s", "t", "i", "n", "g">>

Code == <<"c", "o", "d", "e">>

\* the literals of marker_pattern, each followed by \s*
MarkerLiterals == <<Slashes, Dots, Existing, Code, Dots>>

\* the position after the literal lit read at position i of l (1-based), or 0
MatchLiteral(l, i, lit) ==
    IF i > 0 /\ i + Len(lit) - 1 <= Len(l) /\ SubSeq(l, i, i + Len(lit) - 1) = lit
    THEN i + Len(lit) ELSE 0

RECURSIVE SkipWhitespace(_, _)
\* \s* is greedy; no literal starts with whitespace, so it never backtracks
SkipWhitespace(l, i) ==
    IF i > 0 /\ i <= Len(l) /\ IsWhitespace(l[i]) THEN SkipWhitespace(l, i + 1) ELSE i

RECURSIVE MatchFrom(_, _, _)
\* the literals k.. of the pattern match l from position i on
MatchFrom(l, i, k) ==
    IF k > Len(MarkerLiterals) THEN TRUE
    ELSE LET j == MatchLiteral(l, i, MarkerLiterals[k])
         IN  j # 0 /\ MatchFrom(l, SkipWhitespace(l, j), k + 1)

\* marker_pattern.is_match(line): unanchored, the match may start anywhere
marker_pattern_is_match(l) == \E i \in 1..Len(l) : MatchFrom(l, i, 1)

\* ------------------------------------------------------------------------
\* similarity_score

RECURSIVE FillRow(_, _, _, _)
\* row i of the dp table from row i-1 (prev), for the character c = s1[i-1];
\* row holds dp[i][0..j-1] so far, as a 1-based sequence
FillRow(prev, c, s2, row) ==
    IF Len(row) = Len(s2) + 1 THEN row
    ELSE LET j == Len(row)
             cost == IF c = s2[j] THEN 0 ELSE 1
             deletion == prev[j + 1] + 1
             insertion == row[j] + 1
             substitution == prev[j] + cost
         IN  FillRow(prev, c, s2,
                     Append(row, Min(Min(deletion, insertion), substitution)))

RECURSIVE LastRow(_, _, _, _)
\* the last row of the dp table: rows i.. are still to be filled
LastRow(s1, s2, i, prev) ==
    IF i > Len(s1) THEN prev
    ELSE LastRow(s1, s2, i + 1, FillRow(prev, s1[i], s2, <<i>>))

\* dp[s1_chars.len()][s2_chars.len()]
distance(s1, s2) ==
    LastRow(s1, s2, 1, [j \in 1..(Len(s2) + 1) |-> j - 1])[Len(s2) + 1]

\* similarity_score dividing by the length of s1 instead of the longer length
similarity_score_by_first(s1, s2) ==
    IF Len(s1) + Len(s2) = 0 THEN [num |-> 1, den |-> 1]
    ELSE [num |-> Len(s1) - distance(s1, s2), den |-> Len(s1)]

\* The f64 result as the fraction num/den it is rounded from.  Equal fractions
\* round to equal floats and the fractions of lines this short differ by far
\* more than an ulp, so comparing fractions compares the floats.
similarity_score(s1, s2) ==
    LET max_len == Max(Len(s1), Len(s2))
    IN  IF Len(s1) + Len(s2) = 0 THEN [num |-> 1, den |-> 1]
        ELSE [num |-> max_len - distance(s1, s2), den |-> max_len]

ScoreGreater(x, y) == x.num * y.den > y.num * x.den

ZeroScore == [num |-> 0, den |-> 1]

\* the threshold 0.6 = ThresholdNum / ThresholdDen
ThresholdNum == 3

ThresholdDen == 5

Threshold == [num |-> ThresholdNum, den |-> ThresholdDen]

\* ------------------------------------------------------------------------
\* find_best_match_position

\* .take(3) of the non-blank lines
ContextTake == 3

\* block.iter().filter(|line| !line.trim().is_empty()).take(3)
context_lines_of(block) ==
    LET ne == SelectSeq(block, LAMBDA l : ~IsBlank(l))
    IN  SubSeq(ne, 1, Min(ContextTake, Len(ne)))

\* "no index": before any match, and the exact pass finding no line
NoPos == -1

RECURSIVE last_exact_match(_, _, _)
\* first_exact_match with the scan not stopping at the first equal line
last_exact_match(context_line, original_lines, i) ==
    IF i >= Len(original_lines) THEN NoPos
    ELSE LET later == last_exact_match(context_line, original_lines, i + 1)
         IN  IF later # NoPos THEN later
             ELSE IF original_lines[i + 1] = context_line THEN i
             ELSE NoPos

RECURSIVE first_exact_match(_, _, _)
\* "Look for exact matches first": the first index from i on whose line
\* equals context_line, or NoPos when the loop ends without returning
first_exact_match(context_line, original_lines, i) ==
    IF i >= Len(original_lines) THEN NoPos
    ELSE IF original_lines[i + 1] = context_line THEN i
    ELSE first_exact_match(context_line, original_lines, i + 1)

RECURSIVE FuzzyScanOneBased(_, _, _, _, _)
\* FuzzyScan recording the 1-based number of the line as best_pos
FuzzyScanOneBased(context_line, original_lines, i, best_score, best_pos) ==
    IF i >= Len(original_lines) THEN <<best_score, best_pos>>
    ELSE LET score == similarity_score(original_lines[i + 1], context_line)
         IN  IF ScoreGreater(score, best_score)
             THEN FuzzyScanOneBased(context_line, original_lines, i + 1, score, i + 1)
             ELSE FuzzyScanOneBased(context_line, original_lines, i + 1,
                                    best_score, best_pos)

RECURSIVE FuzzyScan(_, _, _, _, _)
\* the fuzzy loop from index i on: <<best_score, best_pos>> at its end
FuzzyScan(context_line, original_lines, i, best_score, best_pos) ==
    IF i >= Len(original_lines) THEN <<best_score, best_pos>>
    ELSE LET score == similarity_score(original_lines[i + 1], context_line)
         IN  IF ScoreGreater(score, best_score)
             THEN FuzzyScan(context_line, original_lines, i + 1, score, i)
             ELSE FuzzyScan(context_line, original_lines, i + 1, best_score, best_pos)

\* is_reasonable_match with >= for >
is_reasonable_match_inclusive(best_score) == ~ScoreGreater(Threshold, best_score)

\* best_score > 0.6
is_reasonable_match(best_score) == ScoreGreater(best_score, Threshold)

\* Some(index): the function never returns None
find_best_match_position(block, original_lines) ==
    IF block = <<>> \/ original_lines = <<>> THEN 0
    ELSE LET context == context_lines_of(block)
         IN  IF context = <<>> THEN 0
             ELSE LET context_line == context[1]
                      exact == first_exact_match(context_line, original_lines, 0)
                      best == FuzzyScan(context_line, original_lines, 0, ZeroScore, 0)
                  IN  IF exact # NoPos THEN exact
                      ELSE IF is_reasonable_match(best[1]) THEN best[2]
                      ELSE 0

\* ------------------------------------------------------------------------
\* edit_file: segmentation of the edit into blocks

RECURSIVE SegmentLoopPushingEmpty(_, _, _)
\* SegmentLoop without the test  !current_block.is_empty()  at a marker
SegmentLoopPushingEmpty(ls, edit_blocks, current_block) ==
    IF ls = <<>> THEN <<edit_blocks, current_block>>
    ELSE IF marker_pattern_is_match(Head(ls))
         THEN SegmentLoopPushingEmpty(Tail(ls), Append(edit_blocks, current_block), <<>>)
         ELSE SegmentLoopPushingEmpty(Tail(ls), edit_blocks,
                                      Append(current_block, Head(ls)))

RECURSIVE SegmentLoop(_, _, _)
\* the loop over edit_lines: <<edit_blocks, current_block>> at its end
SegmentLoop(ls, edit_blocks, current_block) ==
    IF ls = <<>> THEN <<edit_blocks, current_block>>
    ELSE IF marker_pattern_is_match(Head(ls))
         THEN IF current_block # <<>>
              THEN SegmentLoop(Tail(ls), Append(edit_blocks, current_block), <<>>)
              ELSE SegmentLoop(Tail(ls), edit_blocks, current_block)
         ELSE SegmentLoop(Tail(ls), edit_blocks, Append(current_block, Head(ls)))

\* "Add the last block if any"
PushLastBlock(edit_blocks, current_block) ==
    IF current_block # <<>> THEN Append(edit_blocks, current_block) ELSE edit_blocks

\* "If no markers were used, treat the whole edit as one block"
WholeEditFallback(edit_blocks, edit_lines) ==
    IF edit_blocks = <<>> /\ edit_lines # <<>> THEN <<edit_lines>> ELSE edit_blocks

\* edit_blocks as the loop over the blocks finds it
edit_blocks_of(edit_lines) ==
    LET r == SegmentLoop(edit_lines, <<>>, <<>>)
    IN  WholeEditFallback(PushLastBlock(r[1], r[2]), edit_lines)

\* ------------------------------------------------------------------------
\* edit_file: the splice of one block

\* let context_lines = 3
context_lines == 3

\* best_match_pos.saturating_sub(context_lines)
start_of(best_match_pos) == Max(0, best_match_pos - context_lines)

\* end_of without the clamp to the buffer length
end_unclamped(best_match_pos, len) == best_match_pos + context_lines

\* min(result_lines.len(), best_match_pos + context_lines)
end_of(best_match_pos, len) == Min(len, best_match_pos + context_lines)

\* replace_count_of replacing the whole window whatever the block length
replace_count_window(width, block_len) == width

\* min(end - start, block.len()); width is end - start as the build computes it
replace_count_of(width, block_len) == Min(width, block_len)

\* The results of the usize subtraction end - start: the difference, or on
\* underflow a panic (overflow checks on) or the wrapped value, which exceeds
\* every block length and is stood for by block_len (overflow checks off).
WidthOutcomes(s, e, block_len) ==
    IF e >= s THEN {[panic |-> FALSE, width |-> e - s]}
    ELSE {[panic |-> TRUE, width |-> 0], [panic |-> FALSE, width |-> block_len]}

\* both slices of result_lines are within bounds
SlicesInBounds(buf, s, rc) == s <= Len(buf) /\ s + rc <= Len(buf)

\* new_result_lines_of inserting the block without dropping the replaced lines
new_result_lines_inserting(buf, block, s, rc) ==
    SubSeq(buf, 1, s) \o block \o SubSeq(buf, s + 1, Len(buf))

\* result_lines[0..start] ++ block ++ result_lines[start + replace_count..]
new_result_lines_of(buf, block, s, rc) ==
    SubSeq(buf, 1, s) \o block \o SubSeq(buf, s + rc + 1, Len(buf))

\* ------------------------------------------------------------------------
\* edit_file: the diff (similar::TextDiff::from_lines, iter_all_changes)

RECURSIVE LcsRow(_, _, _, _)
\* row i of the longest-common-subsequence table from row i-1
LcsRow(prev, x, b, row) ==
    IF Len(row) = Len(b) + 1 THEN row
    ELSE LET j == Len(row)
         IN  LcsRow(prev, x, b,
                    Append(row, IF x = b[j] THEN prev[j] + 1
                                ELSE Max(prev[j + 1], row[j])))

RECURSIVE LcsLast(_, _, _, _)
LcsLast(a, b, i, prev) ==
    IF i > Len(a) THEN prev ELSE LcsLast(a, b, i + 1, LcsRow(prev, a[i], b, <<0>>))

\* the length of a longest common subsequence of the token sequences a and b
LcsLen(a, b) == LcsLast(a, b, 1, [j \in 1..(Len(b) + 1) |-> 0])[Len(b) + 1]

\* diff_tokens with the lines stripped of their line ending
diff_tokens_stripped(t) == Lines(t)

\* TextDiff::from_lines tokenises each text into lines that keep their "\n"
diff_tokens(t) == SplitInclusive(t, <<>>)

RECURSIVE DiffOps(_, _)
\* a shortest edit script over the tokens: a deletion precedes the insertion
\* that replaces it
DiffOps(a, b) ==
    IF a = <<>> THEN [i \in 1..Len(b) |-> [tag |-> "Insert", value |-> b[i]]]
    ELSE IF b = <<>> THEN [i \in 1..Len(a) |-> [tag |-> "Delete", value |-> a[i]]]
    ELSE IF Head(a) = Head(b)
         THEN <<[tag |-> "Equal", value |-> Head(a)]>> \o DiffOps(Tail(a), Tail(b))
    ELSE IF LcsLen(Tail(a), b) >= LcsLen(a, Tail(b))
         THEN <<[tag |-> "Delete", value |-> Head(a)]>> \o DiffOps(Tail(a), b)
    ELSE <<[tag |-> "Insert", value |-> Head(b)]>> \o DiffOps(a, Tail(b))

\* diff.iter_all_changes() of TextDiff::from_lines(old, new)
iter_all_changes(old, new) == DiffOps(diff_tokens(old), diff_tokens(new))

\* match change.tag() { Delete => "-", Insert => "+", Equal => " " }
prefix_of(tag) ==
    IF tag = "Delete" THEN "-" ELSE IF tag = "Insert" THEN "+" ELSE " "

\* format!("{} {}", prefix, value)
format_change(prefix, value) == <<prefix, " ">> \o value

\* the changes of the modify path
changes_of(old, new) ==
    LET ops == iter_all_changes(old, new)
    IN  [i \in 1..Len(ops) |-> format_change(prefix_of(ops[i].tag), ops[i].value)]

\* created_changes_of through the diff against the empty text
created_changes_from_diff(code_edit) == changes_of(<<>>, code_edit)

\* the changes of the create path: code_edit.lines().map(|l| format!("+ {}", l))
created_changes_of(code_edit) ==
    LET ls == Lines(code_edit)
    IN  [i \in 1..Len(ls) |-> format_change("+", ls[i])]

\* ------------------------------------------------------------------------
\* Inputs

\* "// ... existing code ..."
MarkerLine ==
    Slashes \o <<" ">> \o Dots \o <<" ">> \o Existing \o <<" ">> \o Code
            \o <<" ">> \o Dots

Letters == <<"a", "b", "c", "d", "e", "f", "g", "h", "i", "j">>

\* the longest original file of the sweep, in lines
MaxOrigLines == 6

\* the longest edit of the sweep, in lines
MaxEditLines == 3

\* the longest original file of the fuzzy sweep, in lines
MaxFuzzyLines == 2

SeqsUpTo(S, n) == UNION {[1..k -> S] : k \in 0..n}

\* with and without a final line ending
Endings(ls) == {Join(ls, <<NL>>), Join(ls, <<NL>>) \o <<NL>>}

\* the files "a\nb\n..." of up to MaxOrigLines lines, and one with a blank
\* line and a repeated line
SweepOriginals ==
    UNION {Endings([i \in 1..n |-> <<Letters[i]>>]) : n \in 0..MaxOrigLines}
        \cup {Join(<<<<"a">>, <<"b">>, <<" ">>, <<"b">>>>, <<NL>>)}

\* the lines of the edits: empty, blank, a marker, a line of no file, and the
\* lines at index 1 and 4 of the files
SweepEditLines == {<<>>, <<" ">>, MarkerLine, <<"X">>, <<"b">>, <<"e">>}

SweepEdits == {Join(ls, <<NL>>) : ls \in SeqsUpTo(SweepEditLines, MaxEditLines)}

\* lines at edit distance 1, 2 and more from each other
FuzzyOriginalLines ==
    {<<"a", "b", "c">>, <<"a", "b", "x">>, <<"a", "b", "c", "d", "e">>, <<"q">>}

FuzzyOriginals ==
    {Join(ls, <<NL>>) : ls \in SeqsUpTo(FuzzyOriginalLines, MaxFuzzyLines) \ {<<>>}}

FuzzyEdits ==
    {<<"a", "b", "d">>, <<"a", "b", "c", "x", "y">>, <<"z", "z">>,
     <<" ", NL, "a", "b", "d">>}

\* the worked scenario: lines a..e, fragment b, X, d
ScenarioOriginal ==
    Join(<<<<"a">>, <<"b">>, <<"c">>, <<"d">>, <<"e">>>>, <<NL>>)

ScenarioEdit == Join(<<<<"b">>, <<"X">>, <<"d">>>>, <<NL>>)

\* a block longer than the window of 2 * context_lines lines
LongEdit == Join([i \in 1..(2 * context_lines + 1) |->
                    IF i = 1 THEN <<"e">> ELSE <<"X">>], <<NL>>)

LongOriginal == Join([i \in 1..10 |-> <<Letters[i]>>], <<NL>>)

\* the path does not exist
NoFile == [exists |-> FALSE, content |-> <<>>]

\* the path holds a file of content t
File(t) == [exists |-> TRUE, content |-> t]

\* The file after fs::write failed: untouched when the open failed, empty when
\* the open has truncated or created it and the write of the content failed.
FailedWriteOutcomes(file) == {file, File(<<>>)}

\* the file at the call and the edit
Inputs ==
    [orig : {File(t) : t \in SweepOriginals} \cup {NoFile}, edit : SweepEdits]
        \cup [orig : {File(t) : t \in FuzzyOriginals}, edit : FuzzyEdits]
        \cup {[orig |-> File(ScenarioOriginal), edit |-> ScenarioEdit],
              [orig |-> File(LongOriginal), edit |-> LongEdit]}

\* ------------------------------------------------------------------------
\* State: the file at target_file, and the locals of each invocation of edit_file

VARIABLES
    disk,              \* the file at target_file: File(content) or NoFile
    pc,                \* where each invocation stands
    code_edit,         \* the argument code_edit
    file_exists,
    original_content,
    original_lines,
    edit_lines,
    edit_blocks,
    result_lines,
    block_idx,         \* the block the loop is at (1-based); 0 before the loop
    best_match_pos,    \* of the block spliced last; NoPos before any
    start,
    end,
    replace_count,
    new_content,
    result,            \* what edit_file returned
    \* similarity_score applied to a pair of strings
    sim_in,            \* the arguments
    sim_out,           \* the scores, or NoScores before the calls
    \* scan_directory_tree_from_path
    scan_fs,           \* the directory tree scanned
    tree_string,       \* the String built, as the pieces pushed
    scan_pc,
    \* tools/text_editor.rs, on one path
    te_file,           \* the file at the path: File(content) or NoFile
    BACKUP_STORAGE,    \* the backup stored for the path, or NoBackup
    te_result,         \* the TextEditorResult of the last command
    te_before,         \* history: the file before the last command that wrote it
    te_commands,       \* history: the number of commands handled
    \* the chat loop of main
    chat_pc,
    ask_user,
    messages,
    response_json,
    sent               \* history: the number of messages of each request sent

locals == <<code_edit, file_exists, original_content, original_lines, edit_lines,
            edit_blocks, result_lines, block_idx, best_match_pos, start, end,
            replace_count, new_content, result>>

\* the state of the other components, which edit_file leaves alone
others == <<sim_in, sim_out, scan_fs, tree_string, scan_pc, te_file,
            BACKUP_STORAGE, te_result, te_before, te_commands, chat_pc, ask_user,
            messages, response_json, sent>>

\* the state of edit_file
edit_vars == <<disk, pc, locals>>

vars == <<edit_vars, others>>

NoScores == [kind |-> "None"]

NoBackup == [present |-> FALSE, original_content |-> <<>>]

NoTextEditorResult == [kind |-> "None"]

\* response_json["content"] that is not an array
NotArray == [is_array |-> FALSE, blocks |-> <<>>]

\* no response received yet
NoResponse == [stop_reason |-> "none", content |-> NotArray]

SimIdle ==
    /\ sim_in = [a |-> <<>>, b |-> <<>>]
    /\ sim_out = NoScores

ScanIdle ==
    /\ scan_fs = [root |-> "", dirs |-> {}, files |-> {}]
    /\ tree_string = <<>>
    /\ scan_pc = "idle"

EditorIdle ==
    /\ te_file = [exists |-> FALSE, content |-> <<>>]
    /\ BACKUP_STORAGE = NoBackup
    /\ te_result = NoTextEditorResult
    /\ te_before = [known |-> FALSE, content |-> <<>>]
    /\ te_commands = 0

ChatIdle ==
    /\ chat_pc = "idle"
    /\ ask_user = TRUE
    /\ messages = <<>>
    /\ response_json = NoResponse
    /\ sent = <<>>

\* the other components before anything is called
OthersIdle == SimIdle /\ ScanIdle /\ EditorIdle /\ ChatIdle

sim_vars == <<sim_in, sim_out>>

scan_vars == <<scan_fs, tree_string, scan_pc>>

editor_vars == <<te_file, BACKUP_STORAGE, te_result, te_before, te_commands>>

chat_vars == <<chat_pc, ask_user, messages, response_json, sent>>

Procs == {1, 2}

NoResult == [kind |-> "None"]

\* the failure reported as an EditResult with success: false, not as an Err
FailedEditResult ==
    [kind |-> "Ok", success |-> FALSE, is_new |-> FALSE, changes |-> <<>>]

\* Err(io::Error), returned by the ? operator
ErrResult == [kind |-> "Err"]

\* Ok(EditResult { success: true, file, is_new, changes })
OkResult(is_new, changes) ==
    [kind |-> "Ok", success |-> TRUE, is_new |-> is_new, changes |-> changes]

\* the locals before the first statement of edit_file
InitLocals(edits) ==
    /\ code_edit = edits
    /\ file_exists = [p \in Procs |-> FALSE]
    /\ original_content = [p \in Procs |-> <<>>]
    /\ original_lines = [p \in Procs |-> <<>>]
    /\ edit_lines = [p \in Procs |-> <<>>]
    /\ edit_blocks = [p \in Procs |-> <<>>]
    /\ result_lines = [p \in Procs |-> <<>>]
    /\ block_idx = [p \in Procs |-> 0]
    /\ best_match_pos = [p \in Procs |-> NoPos]
    /\ start = [p \in Procs |-> 0]
    /\ end = [p \in Procs |-> 0]
    /\ replace_count = [p \in Procs |-> 0]
    /\ new_content = [p \in Procs |-> <<>>]
    /\ result = [p \in Procs |-> NoResult]

\* no call of edit_file in progress
EditIdle ==
    /\ disk = [exists |-> FALSE, content |-> <<>>]
    /\ pc = [p \in Procs |-> "idle"]
    /\ InitLocals([p \in Procs |-> <<>>])

\* one call of edit_file
Init ==
    \E input \in Inputs :
        /\ disk = input.orig
        /\ pc = [p \in Procs |-> IF p = 1 THEN "call" ELSE "idle"]
        /\ InitLocals([p \in Procs |-> IF p = 1 THEN input.edit ELSE <<>>])
        /\ OthersIdle

\* ------------------------------------------------------------------------
\* edit_file, statement by statement

\* file_path.exists() and fs::read_to_string(file_path)? succeeding
ReadFile(p) ==
    /\ pc[p] = "call"
    /\ file_exists' = [file_exists EXCEPT ![p] = disk.exists]
    /\ original_content' =
           [original_content EXCEPT ![p] = IF disk.exists THEN disk.content ELSE <<>>]
    /\ pc' = [pc EXCEPT ![p] = IF disk.exists THEN "segment" ELSE "create"]
    /\ UNCHANGED <<disk, code_edit, original_lines, edit_lines, edit_blocks,
                   result_lines, block_idx, best_match_pos, start, end,
                   replace_count, new_content, result>>
    /\ UNCHANGED others

\* fs::read_to_string(file_path)? failing: the error is returned
ReadFail(p) ==
    /\ pc[p] = "call"
    /\ disk.exists
    /\ file_exists' = [file_exists EXCEPT ![p] = TRUE]
    /\ result' = [result EXCEPT ![p] = ErrResult]
    /\ pc' = [pc EXCEPT ![p] = "err"]
    /\ UNCHANGED <<disk, code_edit, original_content, original_lines, edit_lines,
                   edit_blocks, result_lines, block_idx, best_match_pos, start,
                   end, replace_count, new_content>>
    /\ UNCHANGED others

\* "If creating a new file, just write the content"
CreateFile(p) ==
    /\ pc[p] = "create"
    /\ disk' = File(code_edit[p])
    /\ result' = [result EXCEPT ![p] = OkResult(TRUE, created_changes_of(code_edit[p]))]
    /\ pc' = [pc EXCEPT ![p] = "done"]
    /\ UNCHANGED <<code_edit, file_exists, original_content, original_lines,
                   edit_lines, edit_blocks, result_lines, block_idx,
                   best_match_pos, start, end, replace_count, new_content>>
    /\ UNCHANGED others

\* fs::write(file_path, code_edit)? failing
CreateFail(p) ==
    /\ pc[p] = "create"
    /\ disk' \in FailedWriteOutcomes(disk)
    /\ result' = [result EXCEPT ![p] = ErrResult]
    /\ pc' = [pc EXCEPT ![p] = "err"]
    /\ UNCHANGED <<code_edit, file_exists, original_content, original_lines,
                   edit_lines, edit_blocks, result_lines, block_idx,
                   best_match_pos, start, end, replace_count, new_content>>
    /\ UNCHANGED others

\* the lines of both texts, the edit blocks, and result_lines = original_lines
Segment(p) ==
    /\ pc[p] = "segment"
    /\ original_lines' = [original_lines EXCEPT ![p] = Lines(original_content[p])]
    /\ edit_lines' = [edit_lines EXCEPT ![p] = Lines(code_edit[p])]
    /\ edit_blocks' = [edit_blocks EXCEPT ![p] = edit_blocks_of(Lines(code_edit[p]))]
    /\ result_lines' = [result_lines EXCEPT ![p] = Lines(original_content[p])]
    /\ block_idx' = [block_idx EXCEPT ![p] = 1]
    /\ pc' = [pc EXCEPT ![p] = "apply"]
    /\ UNCHANGED <<disk, code_edit, file_exists, original_content, best_match_pos,
                   start, end, replace_count, new_content, result>>
    /\ UNCHANGED others

\* match_buffer with the lines of the file as read
match_buffer_original(p) == original_lines[p]

\* the buffer find_best_match_position is given for the next block
match_buffer(p) == result_lines[p]

\* one iteration of  for block in &edit_blocks
ApplyBlock(p) ==
    /\ pc[p] = "apply"
    /\ block_idx[p] <= Len(edit_blocks[p])
    /\ LET block == edit_blocks[p][block_idx[p]]
           pos == find_best_match_position(block, match_buffer(p))
           s == start_of(pos)
           e == end_of(pos, Len(result_lines[p]))
       IN  \E w \in WidthOutcomes(s, e, Len(block)) :
             LET rc == replace_count_of(w.width, Len(block))
                 ok == ~w.panic /\ SlicesInBounds(result_lines[p], s, rc)
             IN  /\ best_match_pos' = [best_match_pos EXCEPT ![p] = pos]
                 /\ start' = [start EXCEPT ![p] = s]
                 /\ end' = [end EXCEPT ![p] = e]
                 /\ replace_count' = [replace_count EXCEPT ![p] = rc]
                 /\ result_lines' =
                        [result_lines EXCEPT ![p] =
                            IF ok THEN new_result_lines_of(result_lines[p], block, s, rc)
                            ELSE result_lines[p]]
                 /\ block_idx' = [block_idx EXCEPT ![p] = IF ok THEN @ + 1 ELSE @]
                 /\ pc' = [pc EXCEPT ![p] = IF ok THEN "apply" ELSE "panic"]
    /\ UNCHANGED <<disk, code_edit, file_exists, original_content, original_lines,
                   edit_lines, edit_blocks, new_content, result>>
    /\ UNCHANGED others

\* WriteBack reading the file again and, when it has changed since the read,
\* keeping its lines after the lines of the edit
WriteBackMerging(p) ==
    /\ pc[p] = "apply"
    /\ block_idx[p] > Len(edit_blocks[p])
    /\ LET merged == IF disk.exists /\ disk.content # original_content[p]
                     THEN Join(edit_lines[p] \o Lines(disk.content), <<NL>>)
                     ELSE Join(result_lines[p], <<NL>>)
       IN  /\ new_content' = [new_content EXCEPT ![p] = merged]
           /\ disk' = File(merged)
    /\ pc' = [pc EXCEPT ![p] = "diff"]
    /\ UNCHANGED <<code_edit, file_exists, original_content, original_lines,
                   edit_lines, edit_blocks, result_lines, block_idx,
                   best_match_pos, start, end, replace_count, result>>
    /\ UNCHANGED others

\* result_lines.join("\n") and fs::write(file_path, &new_content)? succeeding
WriteBack(p) ==
    /\ pc[p] = "apply"
    /\ block_idx[p] > Len(edit_blocks[p])
    /\ new_content' = [new_content EXCEPT ![p] = Join(result_lines[p], <<NL>>)]
    /\ disk' = File(Join(result_lines[p], <<NL>>))
    /\ pc' = [pc EXCEPT ![p] = "diff"]
    /\ UNCHANGED <<code_edit, file_exists, original_content, original_lines,
                   edit_lines, edit_blocks, result_lines, block_idx,
                   best_match_pos, start, end, replace_count, result>>
    /\ UNCHANGED others

\* fs::write(file_path, &new_content)? failing
WriteFail(p) ==
    /\ pc[p] = "apply"
    /\ block_idx[p] > Len(edit_blocks[p])
    /\ new_content' = [new_content EXCEPT ![p] = Join(result_lines[p], <<NL>>)]
    /\ disk' \in FailedWriteOutcomes(disk)
    /\ result' = [result EXCEPT ![p] = ErrResult]
    /\ pc' = [pc EXCEPT ![p] = "err"]
    /\ UNCHANGED <<code_edit, file_exists, original_content, original_lines,
                   edit_lines, edit_blocks, result_lines, block_idx,
                   best_match_pos, start, end, replace_count>>
    /\ UNCHANGED others

\* "Generate a simple diff for display" and the Ok result
Report(p) ==
    /\ pc[p] = "diff"
    /\ result' = [result EXCEPT ![p] =
                     OkResult(FALSE, changes_of(original_content[p], new_content[p]))]
    /\ pc' = [pc EXCEPT ![p] = "done"]
    /\ UNCHANGED <<disk, code_edit, file_exists, original_content, original_lines,
                   edit_lines, edit_blocks, result_lines, block_idx,
                   best_match_pos, start, end, replace_count, new_content>>
    /\ UNCHANGED others

Next ==
    \E p \in Procs :
        \/ ReadFile(p)
        \/ ReadFail(p)
        \/ CreateFile(p)
        \/ CreateFail(p)
        \/ Segment(p)
        \/ ApplyBlock(p)
        \/ WriteBack(p)
        \/ WriteFail(p)
        \/ Report(p)

Spec == Init /\ [][Next]_vars

\* ------------------------------------------------------------------------
\* Properties

\* the next step of invocation p splices the block at block_idx
Applying(p) == pc[p] = "apply" /\ block_idx[p] <= Len(edit_blocks[p])

\* the step is one of invocation p
Stepped(p) == pc'[p] # pc[p] \/ block_idx'[p] # block_idx[p]

\* the block the loop is at
CurrentBlock(p) == edit_blocks[p][block_idx[p]]

\* edit_file returned Ok on the create path / on the modify path
Created(p) == pc[p] = "done" /\ result[p].kind = "Ok" /\ result[p].is_new

Modified(p) == pc[p] = "done" /\ result[p].kind = "Ok" /\ ~result[p].is_new

HasNonBlank(block) == \E i \in 1..Len(block) : ~IsBlank(block[i])

\* the first line of the block with a character that is not whitespace
FirstNonBlank(block) ==
    block[CHOOSE i \in 1..Len(block) :
            ~IsBlank(block[i]) /\ \A j \in 1..(i - 1) : IsBlank(block[j])]

HasNonEmpty(block) == \E i \in 1..Len(block) : block[i] # <<>>

\* the first line of the block of length > 0
FirstNonEmpty(block) ==
    block[CHOOSE i \in 1..Len(block) :
            block[i] # <<>> /\ \A j \in 1..(i - 1) : block[j] = <<>>]

\* pos is the smallest index (0-based) of a line of buf equal to line
IsFirstIndexOf(pos, line, buf) ==
    /\ pos \in 0..(Len(buf) - 1)
    /\ buf[pos + 1] = line
    /\ \A j \in 0..(pos - 1) : buf[j + 1] # line

Occurs(line, buf) == \E i \in 1..Len(buf) : buf[i] = line

\* C1: on a path that does not exist, a call that returns Ok has written the
\* edit specification verbatim, returns success and is_new, its diff is one
\* entry "+ " ++ line per line of the edit specification, and neither the
\* segmentation nor the anchor matching has run.
C1_CreateWritesEditVerbatim ==
    \A p \in Procs :
        (pc[p] = "done" /\ ~file_exists[p]) =>
            /\ disk = File(code_edit[p])
            /\ result[p].kind = "Ok" /\ result[p].success /\ result[p].is_new
            /\ Len(result[p].changes) = Len(Lines(code_edit[p]))
            /\ \A i \in 1..Len(result[p].changes) :
                   result[p].changes[i] = <<"+", " ">> \o Lines(code_edit[p])[i]
            /\ block_idx[p] = 0
            /\ edit_blocks[p] = <<>>
            /\ result_lines[p] = <<>>
            /\ best_match_pos[p] = NoPos

\* a file created from an edit of several lines that has a marker line and
\* ends with a line ending
C1_Witness ==
    \E p \in Procs :
        /\ Created(p)
        /\ Len(result[p].changes) >= 2
        /\ code_edit[p][Len(code_edit[p])] = NL
        /\ \E i \in 1..Len(Lines(code_edit[p])) :
               marker_pattern_is_match(Lines(code_edit[p])[i])

MostSimilar(line, buf) ==
    LET d(i) == distance(buf[i + 1], line)
        m(i) == Max(Len(buf[i + 1]), Len(line))
    IN  {i \in 0..(Len(buf) - 1) :
            \A j \in 0..(Len(buf) - 1) :
                (m(i) - d(i)) * m(j) >= (m(j) - d(j)) * m(i)}

\* the anchor the fuzzy pass is to give for line in buf
FuzzyAnchor(line, buf) ==
    LET best == CHOOSE i \in MostSimilar(line, buf) :
                    \A j \in MostSimilar(line, buf) : i <= j
    IN  IF 5 * distance(buf[best + 1], line) < 2 * Max(Len(buf[best + 1]), Len(line))
        THEN best ELSE 0

WindowStart(anchor) == IF anchor - 3 > 0 THEN anchor - 3 ELSE 0

WindowEnd(anchor, len) == IF anchor + 3 < len THEN anchor + 3 ELSE len

ReplaceCount(anchor, len, fragLen) ==
    IF WindowEnd(anchor, len) - WindowStart(anchor) < fragLen
    THEN WindowEnd(anchor, len) - WindowStart(anchor) ELSE fragLen

\* C4: one splice step produces buffer[0..start] ++ fragment ++
\* buffer[start+replaceCount ..] for start = max(0, anchor - 3), end =
\* min(bufferLen, anchor + 3), replaceCount = min(end - start, fragmentLen);
\* the buffer lines outside [start, start+replaceCount) are kept in order.
C4_SpliceIsWindowReplacement ==
    [][\A p \in Procs :
        (Applying(p) /\ Stepped(p)) =>
            LET buf == result_lines[p]
                frag == CurrentBlock(p)
                s == WindowStart(best_match_pos'[p])
                e == WindowEnd(best_match_pos'[p], Len(buf))
                rc == ReplaceCount(best_match_pos'[p], Len(buf), Len(frag))
            IN  /\ pc'[p] = "apply"
                /\ start'[p] = s /\ end'[p] = e /\ replace_count'[p] = rc
                /\ result_lines'[p] =
                       SubSeq(buf, 1, s) \o frag \o SubSeq(buf, s + rc + 1, Len(buf))
                /\ \A i \in 1..s : result_lines'[p][i] = buf[i]
                /\ \A i \in (s + rc + 1)..Len(buf) :
                       result_lines'[p][i - rc + Len(frag)] = buf[i]]_vars

\* a splice whose window starts after the first line and ends before the last
\* and is shorter than the block: lines are kept on both sides
C4_Witness ==
    \E p \in Procs :
        /\ pc[p] = "apply" /\ block_idx[p] = 2
        /\ start[p] > 0
        /\ end[p] < Len(original_lines[p])
        /\ replace_count[p] = end[p] - start[p]
        /\ replace_count[p] < Len(edit_blocks[p][1])
        /\ result_lines[p][start[p]] = original_lines[p][start[p]]
        /\ result_lines[p][Len(result_lines[p])] =
               original_lines[p][Len(original_lines[p])]

\* the scenario: lines a..e, an edit without marker whose one block is b, X, d,
\* and that block spliced
ScenarioSpliced(p) ==
    /\ original_lines[p] = <<<<"a">>, <<"b">>, <<"c">>, <<"d">>, <<"e">>>>
    /\ edit_lines[p] = <<<<"b">>, <<"X">>, <<"d">>>>
    /\ edit_blocks[p] = <<edit_lines[p]>>
    /\ block_idx[p] = 2

\* C5 (as amended): the scenario anchors at index 1 with window [0,4] and
\* replaceCount 3, and the resulting buffer is b, X, d, d, e.
C5_ScenarioKeepsFragmentHead ==
    \A p \in Procs :
        ScenarioSpliced(p) =>
            /\ best_match_pos[p] = 1
            /\ start[p] = 0 /\ end[p] = 4 /\ replace_count[p] = 3
            /\ result_lines[p] = <<<<"b">>, <<"X">>, <<"d">>, <<"d">>, <<"e">>>>

\* the scenario has run to its end and the file holds b, X, d, d, e
C5_Witness ==
    \E p \in Procs :
        /\ ScenarioSpliced(p)
        /\ Modified(p)
        /\ disk = File(<<"b", NL, "X", NL, "d", NL, "d", NL, "e">>)

\* C5 as stated: the resulting buffer of the scenario is X, d, d, e.
C5_ScenarioAsStated ==
    \A p \in Procs :
        ScenarioSpliced(p) =>
            /\ best_match_pos[p] = 1
            /\ start[p] = 0 /\ end[p] = 4 /\ replace_count[p] = 3
            /\ result_lines[p] = <<<<"X">>, <<"d">>, <<"d">>, <<"e">>>>

\* C6: a splice step removes at most min(2C, fragmentLen) buffer lines, C = 3,
\* so the buffer length is never negative and never smaller than before the
\* splice: bufferLen' = bufferLen - removed + fragmentLen >= bufferLen.
C6_SpliceNeverShrinks ==
    [][\A p \in Procs :
        (Applying(p) /\ Stepped(p)) =>
            LET removed == replace_count'[p]
                fragLen == Len(CurrentBlock(p))
            IN  /\ removed >= 0
                /\ removed <= 2 * 3 /\ removed <= fragLen
                /\ Len(result_lines'[p]) = Len(result_lines[p]) - removed + fragLen
                /\ Len(result_lines'[p]) >= Len(result_lines[p])
                /\ Len(result_lines'[p]) >= 0]_vars

\* a block of more than 2C lines replaced 2C lines and the buffer grew
C6_Witness ==
    \E p \in Procs :
        /\ pc[p] = "apply" /\ block_idx[p] = 2
        /\ replace_count[p] = 2 * 3
        /\ Len(edit_blocks[p][1]) > 2 * 3
        /\ Len(result_lines[p]) > Len(original_lines[p])

IsMarkerAt(ls, i) == marker_pattern_is_match(ls[i])

\* the first lines of the runs of consecutive non-marker lines of ls
RunStarts(ls) ==
    {i \in 1..Len(ls) : ~IsMarkerAt(ls, i) /\ (i = 1 \/ IsMarkerAt(ls, i - 1))}

\* the last line of the run that starts at line s
RunEnd(ls, s) ==
    CHOOSE j \in s..Len(ls) :
        /\ \A i \in s..j : ~IsMarkerAt(ls, i)
        /\ j = Len(ls) \/ IsMarkerAt(ls, j + 1)

\* the first line of the k-th run
KthRunStart(ls, k) ==
    CHOOSE s \in RunStarts(ls) : Cardinality({t \in RunStarts(ls) : t < s}) = k - 1

\* the maximal runs of consecutive non-marker lines of ls, in order
MaximalRuns(ls) ==
    [k \in 1..Cardinality(RunStarts(ls)) |->
        SubSeq(ls, KthRunStart(ls, k), RunEnd(ls, KthRunStart(ls, k)))]

\* C7: for an edit specification with at least one non-marker line the
\* segmentation yields exactly the maximal runs of consecutive non-marker
\* lines, in order and none empty; without a marker it yields the one
\* fragment of all the lines.
C7_BlocksAreMaximalRuns ==
    \A p \in Procs :
        (/\ block_idx[p] >= 1
         /\ \E i \in 1..Len(Lines(code_edit[p])) : ~IsMarkerAt(Lines(code_edit[p]), i))
        => /\ edit_blocks[p] = MaximalRuns(Lines(code_edit[p]))
           /\ \A k \in 1..Len(edit_blocks[p]) : edit_blocks[p][k] # <<>>
           /\ (\A i \in 1..Len(Lines(code_edit[p])) : ~IsMarkerAt(Lines(code_edit[p]), i))
                  => edit_blocks[p] = <<Lines(code_edit[p])>>

\* an edit of three lines with a marker in the middle is cut into two blocks
C7_Witness ==
    \E p \in Procs :
        /\ block_idx[p] >= 1
        /\ Len(edit_lines[p]) = 3
        /\ IsMarkerAt(edit_lines[p], 2)
        /\ edit_blocks[p] = <<<<edit_lines[p][1]>>, <<edit_lines[p][3]>>>>

HasMarkerLine(ls) == \E i \in 1..Len(ls) : IsMarkerAt(ls, i)

\* C8: on an existing file no fragment contains an elision-marker line, so no
\* marker line of the edit specification is spliced into the working buffer or
\* written to the file, also for an edit specification of marker lines only.
\* (No file of the inputs has a marker line: one in the buffer is the edit's.)
C8_NoMarkerLineSpliced ==
    \A p \in Procs :
        /\ \A k \in 1..Len(edit_blocks[p]) : ~HasMarkerLine(edit_blocks[p][k])
        /\ ~HasMarkerLine(result_lines[p])
        /\ (file_exists[p] /\ pc[p] \in {"diff", "done"} /\ disk.exists)
               => ~HasMarkerLine(Lines(disk.content))

RECURSIVE SplicedInOrder(_, _)
\* the buffer buf after the blocks are spliced one after the other, each
\* anchored in the buffer the blocks before it have produced
SplicedInOrder(blocks, buf) ==
    IF blocks = <<>> THEN buf
    ELSE LET frag == Head(blocks)
             anchor == find_best_match_position(frag, buf)
             s == WindowStart(anchor)
             rc == ReplaceCount(anchor, Len(buf), Len(frag))
         IN  SplicedInOrder(Tail(blocks),
                 SubSeq(buf, 1, s) \o frag \o SubSeq(buf, s + rc + 1, Len(buf)))

EntryTag(entry) == entry[1]

EntryValue(entry) == SubSeq(entry, 3, Len(entry))

\* the values of the entries with a tag of tags, concatenated in order
TextOf(changes, tags) ==
    LET kept == SelectSeq(changes, LAMBDA entry : EntryTag(entry) \in tags)
    IN  Concat([i \in 1..Len(kept) |-> EntryValue(kept[i])])

\* C10: on the modify path the diff round-trips: the entries tagged unchanged
\* or added give the final text written to the file, those tagged unchanged or
\* removed give the original text read, and every entry has exactly one of
\* the three tags.
C10_DiffRoundTrips ==
    \A p \in Procs :
        Modified(p) =>
            /\ \A i \in 1..Len(result[p].changes) :
                   /\ Len(result[p].changes[i]) >= 2
                   /\ EntryTag(result[p].changes[i]) \in {" ", "+", "-"}
                   /\ result[p].changes[i][2] = " "
            /\ TextOf(result[p].changes, {" ", "+"}) = new_content[p]
            /\ disk = File(new_content[p])
            /\ TextOf(result[p].changes, {" ", "-"}) = original_content[p]

\* a diff with entries of all three tags, of a file that ended with a line
\* ending and was changed
C10_Witness ==
    \E p \in Procs :
        /\ Modified(p)
        /\ \A t \in {" ", "+", "-"} :
               \E i \in 1..Len(result[p].changes) : EntryTag(result[p].changes[i]) = t
        /\ original_content[p] # <<>>
        /\ original_content[p][Len(original_content[p])] = NL
        /\ new_content[p] # original_content[p]


\* invocation p has returned or was never called
Returned(p) == pc[p] \in {"idle", "done", "err", "panic"}

\* C13: edit_file stops at the first I/O failure and returns it as an error.
\* A failed read leaves the file as it was and writes nothing; a failed write
\* returns an Err, which carries no diff; every EditResult returned has
\* success = true; after the error the invocation takes no further step (no
\* retry) and the file stays as the failure left it (no rollback).
C13_FailsOnFirstIoError ==
    [][\A p \in Procs :
         /\ (pc[p] = "call" /\ pc'[p] = "err")
                => disk' = disk /\ new_content'[p] = <<>>
         /\ (pc[p] # "err" /\ pc'[p] = "err")
                => result'[p].kind = "Err" /\ DOMAIN result'[p] = {"kind"}
         /\ result'[p].kind = "Ok" => result'[p].success
         /\ pc[p] = "err"
                => /\ pc'[p] = "err"
                   /\ result'[p] = result[p]
                   /\ block_idx'[p] = block_idx[p]
         /\ (\A q \in Procs : Returned(q)) => disk' = disk
      ]_vars

\* the write of the spliced content failed after the file was read and a
\* block applied, and left the file truncated
C13_Witness ==
    /\ pc[1] = "err"
    /\ result[1].kind = "Err"
    /\ block_idx[1] >= 2
    /\ original_content[1] # <<>>
    /\ disk = File(<<>>)

\* C18: for every block and every buffer reached, find_best_match_position
\* returns an index, which is 0 when the buffer is empty or the block has no
\* non-empty line and is below the buffer length otherwise; so in the splice
\* start <= end <= buffer length and start + replace_count <= buffer length:
\* end - start does not underflow and both slices are within bounds.
C18_AnchorAndSplicesInBounds ==
    [][\A p \in Procs :
         (Applying(p) /\ Stepped(p)) =>
             LET buf == result_lines[p]
                 pos == best_match_pos'[p]
             IN  /\ pos # NoPos /\ pos >= 0
                 /\ (buf = <<>> \/ ~HasNonEmpty(CurrentBlock(p))) => pos = 0
                 /\ buf # <<>> => pos < Len(buf)
                 /\ start'[p] <= end'[p]
                 /\ end'[p] <= Len(buf)
                 /\ start'[p] + replace_count'[p] <= Len(buf)
                 /\ pc'[p] # "panic"
      ]_vars

\* a block was spliced at a fuzzy anchor on the last line of the buffer
C18_Witness ==
    /\ block_idx[1] = 2
    /\ Len(original_lines[1]) >= 2
    /\ best_match_pos[1] = Len(original_lines[1]) - 1
    /\ ~Occurs(FirstNonBlank(edit_blocks[1][1]), original_lines[1])
    /\ end[1] = Len(original_lines[1])
    /\ replace_count[1] >= 1

\* ---------------------------------------------------------------------------
\* similarity_score on its own
\* ---------------------------------------------------------------------------

\* the characters of the strings scored
SimAlphabet == {"a", "b"}

\* the longest string scored
MaxStrLen == 3

SimStrings == SeqsUpTo(SimAlphabet, MaxStrLen)

InitSim ==
    /\ EditIdle
    /\ ScanIdle /\ EditorIdle /\ ChatIdle
    /\ sim_in \in [a : SimStrings, b : SimStrings]
    /\ sim_out = NoScores

\* similarity_score(a, b), similarity_score(b, a) and similarity_score(a, a)
SimilarityCalls ==
    /\ sim_out = NoScores
    /\ sim_out' = [kind |-> "Scores",
                   ab |-> similarity_score(sim_in.a, sim_in.b),
                   ba |-> similarity_score(sim_in.b, sim_in.a),
                   aa |-> similarity_score(sim_in.a, sim_in.a)]
    /\ UNCHANGED <<sim_in, edit_vars, scan_vars, editor_vars, chat_vars>>

NextSim == SimilarityCalls

SpecSim == InitSim /\ [][NextSim]_vars

RECURSIVE EditDistance(_, _)
\* the least number of insertions, deletions and substitutions of one
\* character that turn a into b
EditDistance(a, b) ==
    IF a = <<>> THEN Len(b)
    ELSE IF b = <<>> THEN Len(a)
    ELSE IF a[1] = b[1] THEN EditDistance(Tail(a), Tail(b))
    ELSE 1 + Min(EditDistance(Tail(a), Tail(b)),
                 Min(EditDistance(Tail(a), b), EditDistance(a, Tail(b))))

SameScore(x, y) == x.num * y.den = y.num * x.den /\ x.den # 0 /\ y.den # 0

OneScore == [num |-> 1, den |-> 1]

\* C11: similarity_score gives the same score for (a, b) and (b, a), gives 1.0
\* for (s, s) and for two empty strings, and otherwise gives
\* 1 - editDistance(a, b) / max(len(a), len(b)), lengths in characters.
C11_SimilarityContract ==
    sim_out # NoScores =>
        LET a == sim_in.a
            b == sim_in.b
            longer == Max(Len(a), Len(b))
        IN  /\ SameScore(sim_out.ab, sim_out.ba)
            /\ SameScore(sim_out.aa, OneScore)
            /\ (a = <<>> /\ b = <<>>) => SameScore(sim_out.ab, OneScore)
            /\ longer > 0 =>
                   SameScore(sim_out.ab,
                             [num |-> longer - EditDistance(a, b), den |-> longer])

\* two different strings of different lengths have been scored both ways
C11_Witness ==
    /\ sim_out # NoScores
    /\ Len(sim_in.a) < Len(sim_in.b)
    /\ sim_in.a # <<>>
    /\ EditDistance(sim_in.a, sim_in.b) = 2
    /\ ~SameScore(sim_out.ab, OneScore)


\* ---------------------------------------------------------------------------
\* edit_file on markers written in other cases and spacings
\* ---------------------------------------------------------------------------

\* "// ... Existing Code ..."
MarkerCapitalised ==
    Slashes \o <<" ">> \o Dots \o <<" ", "E", "x", "i", "s", "t", "i", "n", "g", " ",
                                   "C", "o", "d", "e", " ">> \o Dots

\* "// ... EXISTING CODE ..."
MarkerUpper ==
    Slashes \o <<" ">> \o Dots \o <<" ", "E", "X", "I", "S", "T", "I", "N", "G", " ",
                                   "C", "O", "D", "E", " ">> \o Dots

\* "//...existingcode..."
MarkerTight == Slashes \o Dots \o Existing \o Code \o Dots

\* "//  ...<tab>existing  code ...  "
MarkerWide ==
    Slashes \o <<" ", " ">> \o Dots \o <<"\t">> \o Existing \o <<" ", " ">> \o Code
            \o <<" ">> \o Dots \o <<" ", " ">>

MarkerSweepLines ==
    {MarkerLine, MarkerCapitalised, MarkerUpper, MarkerTight, MarkerWide, <<"X">>}

\* the longest edit of the marker sweep, in lines
MaxMarkerEditLines == 2

MarkerSweepEdits ==
    {Join(ls, <<NL>>) : ls \in SeqsUpTo(MarkerSweepLines, MaxMarkerEditLines)}

MarkerSweepOriginals ==
    {NoFile, File(<<"a">>), File(Join(<<<<"a">>, <<"b">>>>, <<NL>>))}

InitMarker ==
    /\ \E orig \in MarkerSweepOriginals, edit \in MarkerSweepEdits :
        /\ disk = orig
        /\ InitLocals([p \in Procs |-> IF p = 1 THEN edit ELSE <<>>])
    /\ pc = [p \in Procs |-> IF p = 1 THEN "call" ELSE "idle"]
    /\ OthersIdle

SpecMarker == InitMarker /\ [][Next]_vars

\* the lower-case letter of an upper-case letter of the sweep
LowerOf ==
    [c \in {"E", "X", "I", "S", "T", "N", "G", "C", "O", "D"} |->
        CASE c = "E" -> "e" [] c = "X" -> "x" [] c = "I" -> "i" [] c = "S" -> "s"
          [] c = "T" -> "t" [] c = "N" -> "n" [] c = "G" -> "g" [] c = "C" -> "c"
          [] c = "O" -> "o" [] c = "D" -> "d"]

ToLower(l) == [i \in 1..Len(l) |-> IF l[i] \in DOMAIN LowerOf THEN LowerOf[l[i]] ELSE l[i]]

\* a marker whatever the capitalisation of its letters
IsMarkerAnyCase(l) == marker_pattern_is_match(ToLower(l))

Segmented(p) == pc[p] \in {"apply", "diff", "done", "err", "panic"} /\ file_exists[p]

\* C12: a line that is the marker in any capitalisation and spacing is treated
\* as a marker and is in no block (stated for the edits that also have a line
\* that is no marker in any capitalisation, so that blocks exist without the
\* whole-edit fallback).
C12_MarkerOfAnyCaseInNoBlock ==
    \A p \in Procs :
        (/\ Segmented(p)
         /\ \E i \in DOMAIN edit_lines[p] : ~IsMarkerAnyCase(edit_lines[p][i]))
        => \A i \in DOMAIN edit_lines[p] :
               IsMarkerAnyCase(edit_lines[p][i])
               => \A k \in DOMAIN edit_blocks[p] :
                      \A j \in DOMAIN edit_blocks[p][k] :
                          edit_blocks[p][k][j] # edit_lines[p][i]


\* ---------------------------------------------------------------------------
\* two invocations of edit_file on one path
\* ---------------------------------------------------------------------------

RaceOriginals == {NoFile, File(<<"a">>), File(Join(<<<<"a">>, <<"b">>>>, <<NL>>))}

RaceEdits == {<<"X">>, <<"Y">>, Join(<<<<"b">>, <<"Z">>>>, <<NL>>)}

\* both invocations are at their first statement
InitRace ==
    /\ \E orig \in RaceOriginals, e1 \in RaceEdits, e2 \in RaceEdits :
        /\ disk = orig
        /\ InitLocals([p \in Procs |-> IF p = 1 THEN e1 ELSE e2])
    /\ pc = [p \in Procs |-> "call"]
    /\ OthersIdle

SpecRace == InitRace /\ [][Next]_vars

\* the step is a write to the file by invocation p, whether it succeeds or not
WriteStep(p) ==
    /\ pc[p] \in {"apply", "create"}
    /\ pc'[p] \in {"diff", "done", "err"}

\* the step is the successful write of invocation p on the modify path
ModifyWriteStep(p) == pc[p] = "apply" /\ pc'[p] = "diff"

\* the content an invocation that read the text read writes for the edit
ContentFrom(read, edit) ==
    Join(SplicedInOrder(edit_blocks_of(Lines(edit)), Lines(read)), <<NL>>)

\* C14: two invocations on one path run without mutual exclusion, last writer
\* wins.  The file changes only at a write of one of them; a successful write
\* replaces the file, whatever it holds by then, by the content computed from
\* what the writer itself read; so once both have written after reading the
\* same original, the file is what the last writer alone makes of the original.
C14_LastWriterWins ==
    [][/\ disk' # disk => \E p \in Procs : WriteStep(p)
       /\ \A p \in Procs :
            ModifyWriteStep(p) =>
                /\ disk' = File(ContentFrom(original_content[p], code_edit[p]))
                /\ \A q \in Procs \ {p} :
                      (Modified(q)' /\ original_content[q] = original_content[p])
                      => disk' = File(ContentFrom(original_content[q], code_edit[p]))
      ]_vars

\* both invocations read "a\nb" before either wrote; 1 wrote X first, 2 wrote
\* Y last, and the file holds Y and not X
C14_Witness ==
    /\ Modified(1) /\ Modified(2)
    /\ original_content[1] = Join(<<<<"a">>, <<"b">>>>, <<NL>>)
    /\ original_content[2] = original_content[1]
    /\ code_edit[1] = <<"X">>
    /\ code_edit[2] = <<"Y">>
    /\ disk = File(new_content[2])
    /\ new_content[1] # new_content[2]
    /\ \A i \in DOMAIN disk.content : disk.content[i] # "X"


\* ---------------------------------------------------------------------------
\* scan_directory.rs
\* ---------------------------------------------------------------------------

IGNORED_DIRS ==
    {"target", ".git", "node_modules", "dist", "build", "out", "__pycache__",
     ".venv", "venv", "env"}

IGNORED_FILES == {".DS_Store"}

\* the entry names of the trees scanned, in the byte order PathBuf compares by
NameOrder == <<".DS_Store", "a", "src", "target">>

ScanNames == {NameOrder[i] : i \in DOMAIN NameOrder}

NameRank(n) == CHOOSE i \in DOMAIN NameOrder : NameOrder[i] = n

\* the names of the entries below the top level
InnerNames == {"a", "target"}

\* the last component of the path scanned; "" for a path that has none
RootNames == {"proj", "target", ""}

\* the deepest entry below the root
MaxScanDepth == 2

\* A tree: the name of the root directory and the paths below it, each the
\* sequence of names from the root down, split into directories and files.
ScanPaths == UNION {[1..k -> ScanNames] : k \in 1..MaxScanDepth}

Parent(path) == SubSeq(path, 1, Len(path) - 1)

Last(path) == path[Len(path)]

\* the tree whose top level is given by top and whose directories below the
\* root all hold the entries given by inner (name -> "none", "file" or "dir")
KindIn(top, inner, path) ==
    IF Len(path) = 1 THEN top[path[1]]
    ELSE IF Last(path) \in InnerNames THEN inner[Last(path)] ELSE "none"

TreeOf(root, top, inner) ==
    LET present == {path \in ScanPaths :
                       \A k \in 1..Len(path) :
                           /\ KindIn(top, inner, SubSeq(path, 1, k)) # "none"
                           /\ k < Len(path) =>
                                  KindIn(top, inner, SubSeq(path, 1, k)) = "dir"}
    IN  [root |-> root,
         dirs |-> {path \in present : KindIn(top, inner, path) = "dir"},
         files |-> {path \in present : KindIn(top, inner, path) = "file"}]

EntryKinds == {"none", "file", "dir"}

InitScan ==
    /\ EditIdle
    /\ SimIdle /\ EditorIdle /\ ChatIdle
    /\ \E root \in RootNames, top \in [ScanNames -> EntryKinds],
          inner \in [InnerNames -> EntryKinds] :
            scan_fs = TreeOf(root, top, inner)
    /\ tree_string = <<>>
    /\ scan_pc = "call"

\* path.is_dir()
is_dir(fs, path) == path = <<>> \/ path \in fs.dirs

\* dir_path.file_name(): the last component
file_name(fs, path) == IF path = <<>> THEN fs.root ELSE Last(path)

\* fs::read_dir(dir_path): the paths of the entries of the directory
read_dir(fs, path) ==
    {e \in fs.dirs \cup fs.files : Len(e) = Len(path) + 1 /\ Parent(e) = path}

\* the filter with the name alone deciding, whatever the kind of the entry
entry_filter_by_name(fs, path) ==
    Last(path) \notin IGNORED_DIRS \cup IGNORED_FILES

\* the closure given to filter: directories by IGNORED_DIRS, others by
\* IGNORED_FILES
entry_filter(fs, path) ==
    IF is_dir(fs, path) THEN Last(path) \notin IGNORED_DIRS
    ELSE Last(path) \notin IGNORED_FILES

RECURSIVE sort(_)
\* entries.sort(): siblings differ in the last component only
sort(entries) ==
    IF entries = {} THEN <<>>
    ELSE LET least == CHOOSE e \in entries :
                         \A f \in entries : NameRank(Last(e)) <= NameRank(Last(f))
         IN  <<least>> \o sort(entries \ {least})

\* the connector of a last entry, written here in ASCII (U+2514 U+2500 U+2500 and a space)
LastConnector == "+-- "

\* the connector of another entry, in ASCII (U+251C U+2500 U+2500 and a space)
MidConnector == "|-- "

Spaces == "    "

\* the pieces pushed by the indentation loop
indentation(depth, is_last) ==
    [i \in 1..depth |->
        IF i = depth THEN (IF is_last THEN LastConnector ELSE MidConnector)
        ELSE Spaces]

RECURSIVE scan_directory_recursive(_, _, _, _)
RECURSIVE scan_entries(_, _, _, _)
\* the while loop over the sorted entries from the i-th on
scan_entries(fs, entries, i, depth) ==
    IF i > Len(entries) THEN <<>>
    ELSE scan_directory_recursive(fs, entries[i], depth + 1, i = Len(entries))
             \o scan_entries(fs, entries, i + 1, depth)

\* the pieces the call appends to tree_string
scan_directory_recursive(fs, dir_path, depth, is_last) ==
    indentation(depth, is_last) \o <<file_name(fs, dir_path), NL>>
        \o IF is_dir(fs, dir_path)
           THEN scan_entries(fs,
                    sort({e \in read_dir(fs, dir_path) : entry_filter(fs, e)}),
                    1, depth)
           ELSE <<>>

\* scan_directory_tree_from_path returning Ok(tree_string)
ScanTree ==
    /\ scan_pc = "call"
    /\ tree_string' = scan_directory_recursive(scan_fs, <<>>, 0, TRUE)
    /\ scan_pc' = "done"
    /\ UNCHANGED <<scan_fs, edit_vars, sim_vars, editor_vars, chat_vars>>

\* fs::read_dir(dir_path)? failing in some directory: Err, the string dropped
ScanFail ==
    /\ scan_pc = "call"
    /\ tree_string' = <<>>
    /\ scan_pc' = "err"
    /\ UNCHANGED <<scan_fs, edit_vars, sim_vars, editor_vars, chat_vars>>

NextScan == ScanTree \/ ScanFail

SpecScan == InitScan /\ [][NextScan]_vars


RECURSIVE SplitAtNL(_, _)
\* the lines of the pieces ts, cur being the pieces of the line so far
SplitAtNL(ts, cur) ==
    IF ts = <<>> THEN (IF cur = <<>> THEN <<>> ELSE <<cur>>)
    ELSE IF Head(ts) = NL THEN <<cur>> \o SplitAtNL(Tail(ts), <<>>)
    ELSE SplitAtNL(Tail(ts), Append(cur, Head(ts)))

TreeLines == SplitAtNL(tree_string, <<>>)

\* a line is its indentation pieces and the name
LineDepth(l) == Len(l) - 1

LineName(l) == l[Len(l)]

\* the line of the directory the k-th line is listed in: the nearest line
\* above it that is one level less deep
ParentLine(lines, k) ==
    CHOOSE j \in 1..(k - 1) :
        /\ LineDepth(lines[j]) = LineDepth(lines[k]) - 1
        /\ \A i \in (j + 1)..(k - 1) : LineDepth(lines[i]) # LineDepth(lines[k]) - 1

RECURSIVE LinePath(_, _)
\* the path, from the root down, of the entry the k-th line lists
LinePath(lines, k) ==
    IF LineDepth(lines[k]) = 0 THEN <<>>
    ELSE LinePath(lines, ParentLine(lines, k)) \o <<LineName(lines[k])>>

\* the entry is an ignored directory or an ignored file
IgnoredEntry(fs, e) ==
    \/ e \in fs.dirs /\ Last(e) \in IGNORED_DIRS
    \/ e \in fs.files /\ Last(e) \in IGNORED_FILES

\* the entries below the root that are not ignored and not beneath an ignored
\* directory
Visible(fs) ==
    {e \in fs.dirs \cup fs.files :
        \A k \in 1..Len(e) : ~IgnoredEntry(fs, SubSeq(e, 1, k))}

None == [some |-> FALSE, value |-> <<>>]

Some(v) == [some |-> TRUE, value |-> v]

\* TextEditorResult; message is the fixed part of the message text
TextEditorResult(success, message, file_content, changes_made) ==
    [success |-> success, message |-> message, file_content |-> file_content,
     changes_made |-> changes_made]

\* current_content.contains(old_str), old_str not empty
contains(content, pat) ==
    \E i \in 1..(Len(content) - Len(pat) + 1) :
        SubSeq(content, i, i + Len(pat) - 1) = pat

RECURSIVE replace(_, _, _)
\* current_content.replace(old_str, new_str): every occurrence that does not
\* overlap an earlier one, from the left
replace(content, old_str, new_str) ==
    IF Len(content) < Len(old_str) THEN content
    ELSE IF SubSeq(content, 1, Len(old_str)) = old_str
    THEN new_str \o replace(SubSeq(content, Len(old_str) + 1, Len(content)),
                            old_str, new_str)
    ELSE <<Head(content)>> \o replace(Tail(content), old_str, new_str)

\* the map after insert(file_path, backup): the entry of the path replaced
create_backup(content) == [present |-> TRUE, original_content |-> content]

\* the model version of main and one of an earlier family
ModelVersions == {"claude-sonnet-4-20250514", "claude-3-7-sonnet-20250219"}

\* model_version.contains("claude-sonnet-4") || model_version.contains("claude-4")
is_claude_4(model_version) == model_version = "claude-sonnet-4-20250514"

\* the most commands handled in one run
MaxCommands == 3

TeOriginals == {NoFile, File(<<"a">>), File(<<"a", NL, "b">>)}

\* old_str: missing, in the files, in no file
TeOldStrs == {<<>>, <<"a">>, <<"d">>}

\* new_str: never an old_str, so that a replacement changes the content
TeNewStrs == {<<"c">>}

TeInsertLines == 0..3

InitEditor ==
    /\ EditIdle
    /\ SimIdle /\ ScanIdle /\ ChatIdle
    /\ te_file \in TeOriginals
    /\ BACKUP_STORAGE = NoBackup
    /\ te_result = NoTextEditorResult
    /\ te_before = [known |-> FALSE, content |-> <<>>]
    /\ te_commands = 0

\* history: the content before the command, if the command changed the file
RecordBefore ==
    te_before' = IF te_file' # te_file
                 THEN [known |-> TRUE, content |-> te_file.content]
                 ELSE te_before

\* fs::write(file_path, &new_content) and the result of either outcome
WriteModified(content, done) ==
    \/ /\ te_file' = File(content)
       /\ te_result' = TextEditorResult(TRUE, done, Some(content), TRUE)
    \/ /\ te_file' \in FailedWriteOutcomes(te_file)
       /\ te_result' = TextEditorResult(FALSE, "Failed to write to file", None, FALSE)

handle_str_replace_command(old_str, new_str) ==
    /\ te_commands < MaxCommands
    /\ te_commands' = te_commands + 1
    /\ IF old_str = <<>>
       THEN /\ te_result' = TextEditorResult(FALSE,
                   "File path and old_str are required", None, FALSE)
            /\ UNCHANGED <<te_file, BACKUP_STORAGE>>
       ELSE IF ~te_file.exists
       THEN /\ te_result' = TextEditorResult(FALSE, "Failed to read file", None, FALSE)
            /\ UNCHANGED <<te_file, BACKUP_STORAGE>>
       ELSE LET current_content == te_file.content
            IN  /\ BACKUP_STORAGE' = create_backup(current_content)
                /\ IF ~contains(current_content, old_str)
                   THEN /\ te_result' = TextEditorResult(FALSE, "not found in file",
                                            Some(current_content), FALSE)
                        /\ UNCHANGED te_file
                   ELSE WriteModified(replace(current_content, old_str, new_str),
                                      "Successfully replaced text")
    /\ RecordBefore
    /\ UNCHANGED <<edit_vars, sim_vars, scan_vars, chat_vars>>

handle_insert_command(insert_line, new_str) ==
    /\ te_commands < MaxCommands
    /\ te_commands' = te_commands + 1
    /\ IF ~te_file.exists
       THEN /\ te_result' = TextEditorResult(FALSE, "Failed to read file", None, FALSE)
            /\ UNCHANGED <<te_file, BACKUP_STORAGE>>
       ELSE LET current_content == te_file.content
                lines == Lines(current_content)
            IN  /\ BACKUP_STORAGE' = create_backup(current_content)
                /\ IF insert_line = 0 \/ insert_line > Len(lines) + 1
                   THEN /\ te_result' = TextEditorResult(FALSE, "Invalid line number",
                                            Some(current_content), FALSE)
                        /\ UNCHANGED te_file
                   ELSE LET insert_index == insert_line - 1
                            new_lines == SubSeq(lines, 1, insert_index) \o <<new_str>>
                                             \o SubSeq(lines, insert_index + 1, Len(lines))
                        IN  WriteModified(Join(new_lines, <<NL>>),
                                          "Successfully inserted text")
    /\ RecordBefore
    /\ UNCHANGED <<edit_vars, sim_vars, scan_vars, chat_vars>>

\* The history starts anew after undo_edit: te_before is not known again until
\* a later command changes the file.
handle_undo_command(model_version) ==
    /\ te_commands < MaxCommands
    /\ te_commands' = te_commands + 1
    /\ IF is_claude_4(model_version)
       THEN /\ te_result' = TextEditorResult(FALSE,
                   "undo_edit command is not supported", None, FALSE)
            /\ UNCHANGED <<te_file, BACKUP_STORAGE, te_before>>
       ELSE /\ IF BACKUP_STORAGE.present
               THEN LET restored_content == BACKUP_STORAGE.original_content
                    IN  \/ /\ te_file' = File(restored_content)
                           /\ BACKUP_STORAGE' = NoBackup
                           /\ te_result' = TextEditorResult(TRUE, "Successfully restored",
                                               Some(restored_content), TRUE)
                        \/ /\ te_file' \in FailedWriteOutcomes(te_file)
                           /\ te_result' = TextEditorResult(FALSE,
                                               "Failed to restore file", None, FALSE)
                           /\ UNCHANGED BACKUP_STORAGE
               ELSE /\ te_result' = TextEditorResult(FALSE, "No backup found", None, FALSE)
                    /\ UNCHANGED <<te_file, BACKUP_STORAGE>>
            /\ te_before' = [known |-> FALSE, content |-> <<>>]
    /\ UNCHANGED <<edit_vars, sim_vars, scan_vars, chat_vars>>

StrReplace ==
    \E old_str \in TeOldStrs, new_str \in TeNewStrs :
        handle_str_replace_command(old_str, new_str)

Insert ==
    \E insert_line \in TeInsertLines, new_str \in TeNewStrs :
        handle_insert_command(insert_line, new_str)

Undo == \E model_version \in ModelVersions : handle_undo_command(model_version)

NextEditor == StrReplace \/ Insert \/ Undo

SpecEditor == InitEditor /\ [][NextEditor]_vars

\* the step is an undo_edit that restored the file from the backup
UndoRestored ==
    /\ te_commands' = te_commands + 1
    /\ te_result'.message = "Successfully restored"

\* C16: with undo_edit supported, after any sequence of str_replace and insert
\* commands, failed ones included, undo_edit restores the file to the content
\* it had immediately before the most recent command that changed it.
C16_UndoRestoresBeforeLastModification ==
    [][(UndoRestored /\ te_before.known) => te_file' = File(te_before.content)]_vars


\* ---------------------------------------------------------------------------
\* main.rs: the chat loop
\* ---------------------------------------------------------------------------

\* the most requests sent in one run
MaxRequests == 3

\* the lines read from the user
UserLines == {"hi", "exit"}

\* A content block: its type, for a tool_use its name, and whether the I/O of
\* the tool succeeds (read_file of a missing file returns Err).
Block(type, name, ok) == [type |-> type, name |-> name, ok |-> ok]

TextBlock == Block("text", "", TRUE)

ToolUse(name) == Block("tool_use", name, TRUE)

\* the content arrays of the responses: text only, each tool alone or after
\* a text, a tool whose I/O fails, a tool of another name, two tools
ContentArrays ==
    {<<>>,
     <<TextBlock>>,
     <<ToolUse("scan_directory")>>,
     <<TextBlock, ToolUse("read_file")>>,
     <<Block("tool_use", "read_file", FALSE)>>,
     <<ToolUse("str_replace_based_edit_tool")>>,
     <<ToolUse("other_tool")>>,
     <<ToolUse("other_tool"), ToolUse("scan_directory")>>}

Array(blocks) == [is_array |-> TRUE, blocks |-> blocks]

Responses ==
    [stop_reason : {"tool_use", "end_turn"},
     content : {Array(bs) : bs \in ContentArrays} \cup {NotArray}]

\* Message { role: "user", content }; content is the fixed part of the text
Message(content) == [role |-> "user", content |-> content]

InitChat ==
    /\ EditIdle
    /\ SimIdle /\ ScanIdle /\ EditorIdle
    /\ chat_pc = "loop"
    /\ ask_user = TRUE
    /\ messages = <<>>
    /\ response_json = NoResponse
    /\ sent = <<>>

\* the message an arm of  match tool_name  pushes, if any
push_arm(block, msgs) ==
    CASE block.name = "scan_directory" ->
             Append(msgs, Message("Here is the tree structure"))
      [] block.name = "read_file" ->
             Append(msgs, Message("Here are the contents of the file"))
      [] block.name = "str_replace_based_edit_tool" ->
             Append(msgs, Message("Tool execution"))
      [] OTHER -> msgs

RECURSIVE process_blocks(_, _, _)
\* for message_block in content_array, from the i-th block on: the messages at
\* the end, and whether a tool call returned Err, which ends main
process_blocks(content_array, i, msgs) ==
    IF i > Len(content_array) THEN [messages |-> msgs, failed |-> FALSE]
    ELSE LET message_block == content_array[i]
         IN  IF message_block.type = "tool_use"
             THEN IF ~message_block.ok THEN [messages |-> msgs, failed |-> TRUE]
                  ELSE process_blocks(content_array, i + 1, push_arm(message_block, msgs))
             ELSE process_blocks(content_array, i + 1, msgs)

\* the line read is "exit": break
Exit ==
    /\ chat_pc = "loop"
    /\ ask_user
    /\ \E line \in UserLines : line = "exit"
    /\ chat_pc' = "exit"
    /\ UNCHANGED <<ask_user, messages, response_json, sent>>
    /\ UNCHANGED <<edit_vars, sim_vars, scan_vars, editor_vars>>

\* the messages of the request: the line read pushed when ask_user
asked_messages(line) ==
    IF ask_user THEN Append(messages, Message(line)) ELSE messages

\* history: the request sent, whether the user was prompted for it, and the
\* stop_reason of the response before it
request_sent(line) ==
    Append(sent, [history |-> Len(asked_messages(line)), prompted |-> ask_user,
                  after |-> response_json.stop_reason])

\* one iteration of the loop in which send_request returns the response
Iteration ==
    /\ chat_pc = "loop"
    /\ Len(sent) < MaxRequests
    /\ \E line \in (IF ask_user THEN UserLines \ {"exit"} ELSE {""}),
          response \in Responses :
        /\ sent' = request_sent(line)
        /\ response_json' = response
        /\ IF response.stop_reason = "tool_use"
           THEN /\ ask_user' = FALSE
                /\ IF response.content.is_array
                   THEN LET processed == process_blocks(response.content.blocks, 1,
                                                        asked_messages(line))
                        IN  /\ messages' = processed.messages
                            /\ chat_pc' = IF processed.failed THEN "err" ELSE "loop"
                   ELSE /\ messages' = asked_messages(line)
                        /\ chat_pc' = "loop"
           ELSE /\ ask_user' = TRUE
                /\ messages' = asked_messages(line)
                /\ chat_pc' = "loop"
    /\ UNCHANGED <<edit_vars, sim_vars, scan_vars, editor_vars>>

\* send_request(messages.clone()).await? returning Err: main returns it
SendFails ==
    /\ chat_pc = "loop"
    /\ Len(sent) < MaxRequests
    /\ \E line \in (IF ask_user THEN UserLines \ {"exit"} ELSE {""}) :
        /\ sent' = request_sent(line)
        /\ messages' = asked_messages(line)
    /\ chat_pc' = "err"
    /\ UNCHANGED <<ask_user, response_json>>
    /\ UNCHANGED <<edit_vars, sim_vars, scan_vars, editor_vars>>

NextChat == Exit \/ Iteration \/ SendFails

SpecChat == InitChat /\ [][NextChat]_vars

\* C17: after a response whose stop_reason is tool_use the next request is
\* sent without prompting the user and its history is longer than that of the
\* request before it (it carries the result of the tool calls); the user is
\* prompted only for the first request and after a response that is no
\* tool_use.
C17_ToolResultsFollowToolUse ==
    \A i \in 2..Len(sent) :
        /\ sent[i].after = "tool_use"
              => ~sent[i].prompted /\ sent[i].history > sent[i - 1].history
        /\ sent[i].prompted => sent[i].after # "tool_use"

====
